---- MODULE Spec2Model ----
(***************************************************************************)
(* Clip extraction pipeline of ambient-sound-analysis-api.                 *)
(*                                                                         *)
(*   worker.ts  processJob   validate window, fetch playlist, select       *)
(*                           segments, fingerprint, ffmpeg per format,     *)
(*                           analytics, metadata, copy to output tree      *)
(*   cli.ts     main         manifest batch loop and pairs.json summary    *)
(*   api.ts     /clip /batch request handlers around processJob            *)
(*                                                                         *)
(* One action is the code that runs between two awaits of a handler.       *)
(* Strings the code computes with are modelled by their parts: a time      *)
(* string by its written date, hour and zone offset; a path by its         *)
(* directory and base name; the hashed text by its token sequence.         *)
(***************************************************************************)
EXTENDS Integers, Sequences, FiniteSets, TLC

\* ------------------------------------------------------------------ bounds
MaxSegs == 2      \* segments in a served playlist
MaxJobs == 2      \* jobs in a batch
MaxFaults == 1    \* environment faults (transport, tool, decode, copy) per run

\* ------------------------------------------------------------- time values
\* Instants are milliseconds; the epoch of the model is the midnight (UTC)
\* that starts day 0.
HourMs == 60 * 60 * 1000
DayMs == 24 * HourMs

\* Date.parse() of text that is no date; NaN compares false with everything.
NaN == 0 - 1
isNaN(x) == x = NaN

\* An ISO8601 text: the calendar day and hour as written, the zone offset
\* as written (hours, 0 for "Z"); ok = FALSE is text that is no date at all.
TimeString(ok, day, hour, off) ==
    [ok |-> ok, day |-> day, hour |-> hour, off |-> off]

T_0100Z     == TimeString(TRUE, 1, 1, 0)       \* day1 01:00:00Z
T_1800m7    == TimeString(TRUE, 0, 18, 0 - 7)  \* day0 18:00:00-07:00, the same instant
T_0200Z     == TimeString(TRUE, 1, 2, 0)       \* day1 02:00:00Z
T_Garbage   == TimeString(FALSE, 0, 0, 0)      \* text that is no date

TimeStrings == {T_0100Z, T_1800m7, T_0200Z, T_Garbage}

\* a window on the next day, used by batches
T_D2_0100Z  == TimeString(TRUE, 2, 1, 0)       \* day2 01:00:00Z
T_D2_0200Z  == TimeString(TRUE, 2, 2, 0)       \* day2 02:00:00Z

\* Date.parse(text): the instant the text denotes, in ms.
DateParse(s) ==
    IF ~s.ok THEN NaN ELSE ((s.day * 24 + s.hour) - s.off) * HourMs

\* Host time-zone offsets (hours east of UTC) the process may run under.
TzOffsets == {0, 0 - 7}

\* new Date(ts).getFullYear()/getMonth()/getDate(): the calendar date of ts
\* on the host's clock, as a day number (one day number is one y/m/d).
\* An invalid date yields NaN for each part.
LocalDate(ts, tzo) ==
    IF isNaN(ts) THEN NaN ELSE (ts + tzo * HourMs + DayMs) \div DayMs - 1

\* new Date(ts).toISOString().slice(0,19) without separators (YYYYMMDDHHMMSS):
\* the UTC date and the second of that day, milliseconds cut off.
DtShort(ts) == [date |-> ts \div DayMs, sec |-> (ts % DayMs) \div 1000]

\* Math.round((endTs - startTs) / 1000)
DurSec(startTs, endTs) == ((endTs - startTs) + 500) \div 1000

\* ------------------------------------------------------------------- jobs
Feeds == {"orcasound_lab", "bush_point"}
Formats == {"wav", "flac", "psd"}

\* formats: Array<'wav' | 'flac' | 'psd'>, here without repeats, length <= 2.
FormatLists ==
    {<<>>} \cup {<<a>> : a \in Formats}
           \cup {p \in Formats \X Formats : p[1] # p[2]}

\* A playlist URL is identified by the feed whose index it serves.
NoUrl == [host |-> "", feed |-> ""]
PlaylistUrl(feedSlug) == [host |-> "live.orcasound.net", feed |-> feedSlug]

NoFeedId == ""
FeedIds == {NoFeedId, "rpi_7"}
Outs == {"local", "s3"}

ClipJob(feedId, feedSlug, start, end, formats, m3u8Url, out) ==
    [feedId |-> feedId, feedSlug |-> feedSlug, start |-> start, end |-> end,
     formats |-> formats, m3u8Url |-> m3u8Url, out |-> out]

ClipJobs ==
    {ClipJob(i, f, s, e, fm, u, o) :
        i \in FeedIds, f \in Feeds, s \in TimeStrings, e \in TimeStrings,
        fm \in FormatLists, u \in {NoUrl} \cup {PlaylistUrl(g) : g \in Feeds},
        o \in Outs}

\* -------------------------------------------------------- playlist, segments
\* Instants a served segment may carry: before, at the start of, inside and
\* at the end of the window 01:00Z..02:00Z of day 1.
SegInstants == {24 * HourMs, 25 * HourMs, 25 * HourMs + 30 * 60 * 1000, 26 * HourMs}

\* A segment of the parsed playlist: its uri (here its position in the
\* index) and its programDateTime, which may be missing.
Segment(uri, has, ts) == [uri |-> uri, hasPdt |-> has, pdt |-> ts]

PdtChoices == {[has |-> FALSE, ts |-> 0]} \cup {[has |-> TRUE, ts |-> x] : x \in SegInstants}

MediaPlaylists ==
    UNION {{[isMasterPlaylist |-> FALSE,
             segments |-> [i \in 1..n |-> Segment(i, c[i].has, c[i].ts)]] :
               c \in [1..n -> PdtChoices]} : n \in 0..MaxSegs}

MasterPlaylist == [isMasterPlaylist |-> TRUE, segments |-> <<>>]

\* the filter callback of processJob
SegmentInWindow_endInclusive(seg, startTs, endTs) ==
    seg.hasPdt /\ seg.pdt >= startTs /\ seg.pdt <= endTs
SegmentInWindow_startExclusive(seg, startTs, endTs) ==
    seg.hasPdt /\ seg.pdt > startTs /\ seg.pdt < endTs
SegmentInWindow(seg, startTs, endTs) ==
    IF ~seg.hasPdt THEN FALSE
    ELSE seg.pdt >= startTs /\ seg.pdt < endTs

\* mediaPlaylist.segments.filter(...)
SelectSegments(segs, startTs, endTs) ==
    SelectSeq(segs, LAMBDA seg : SegmentInWindow(seg, startTs, endTs))

\* the window check of step 1
InvalidWindow_equalAllowed(startTs, endTs) ==
    isNaN(startTs) \/ isNaN(endTs) \/ endTs < startTs
InvalidWindow(startTs, endTs) ==
    isNaN(startTs) \/ isNaN(endTs) \/ endTs <= startTs

\* ------------------------------------------------------------ fingerprint
\* The bytes of each part of the hashed text.
FeedBytes(f) == IF f = "orcasound_lab" THEN <<111, 108>> ELSE <<98, 112>>
TimeBytes(s) ==
    IF ~s.ok THEN <<121>>
    ELSE <<48 + s.day, 48 + s.hour>>
         \o (IF s.off = 0 THEN <<90>> ELSE <<45, 48 - s.off>>)
FormatBytes(fmt) ==
    CASE fmt = "wav" -> <<119>> [] fmt = "flac" -> <<102>> [] OTHER -> <<112>>

RECURSIVE JoinFormats(_)
\* job.formats.join(',')
JoinFormats(fs) ==
    IF Len(fs) = 0 THEN <<>>
    ELSE IF Len(fs) = 1 THEN FormatBytes(fs[1])
    ELSE FormatBytes(fs[1]) \o <<44>> \o JoinFormats(Tail(fs))

\* `${job.feedSlug}|${job.start}|${job.end}|${job.formats.join(',')}`
HashText(job) ==
    FeedBytes(job.feedSlug) \o <<124>> \o TimeBytes(job.start) \o <<124>>
        \o TimeBytes(job.end) \o <<124>> \o JoinFormats(job.formats)

RECURSIVE Lane(_, _, _)
Lane(bytes, mult, acc) ==
    IF Len(bytes) = 0 THEN acc
    ELSE Lane(Tail(bytes), mult, (acc * mult + Head(bytes)) % 65536)

\* createHash('sha256').update(text).digest('hex').slice(0, 8): a fixed
\* function of the bytes of the text onto 32 bits, kept as two 16-bit lanes.
Digest(bytes) == <<Lane(bytes, 31, 7), Lane(bytes, 37, 11)>>

Fingerprint(job) == Digest(HashText(job))

NoHash == <<0, 0>>

\* ------------------------------------------------------------------ paths
NoBase == [feed |-> "", dt |-> [date |-> 0, sec |-> 0], dur |-> 0]

\* `${job.feedSlug}_${dtShort}_${durSec}s`
Base(job, startTs, endTs) ==
    [feed |-> job.feedSlug, dt |-> DtShort(startTs), dur |-> DurSec(startTs, endTs)]

\* path.join(process.cwd(), 'tmp', baseWithHash)
TmpDir(base, hash) ==
    [root |-> "tmp", base |-> base, hash |-> hash, feed |-> "", date |-> 0]

\* path.join(process.cwd(), 'output', 'clips', feedSlug, yyyy, mm, dd)
OutputDir(feedSlug, date) ==
    [root |-> "output/clips", base |-> NoBase, hash |-> NoHash,
     feed |-> feedSlug, date |-> date]

NoDir == [root |-> "", base |-> NoBase, hash |-> NoHash, feed |-> "", date |-> 0]

\* path.join(dir, `${base}.${ext}`); the directory itself is File(dir, NoBase, "")
File(dir, base, ext) == [dir |-> dir, base |-> base, ext |-> ext]
NoFile == File(NoDir, NoBase, "")

\* ------------------------------------------------------------- analytics
\* const fftSize = 1024
fftSize == 1024

MaxFrames == 2    \* complete frames in a decoded clip

\* Sample values: 16-bit PCM silence and negative full scale as wav-decoder
\* scales them (0 and -32768 / 32768).
Amplitudes == {0 - 1, 0}

\* samples.length of the decoded clips: every number of complete frames up
\* to MaxFrames, followed by no, one, half a frame of, or fftSize - 1 samples
TailLengths == {0, 1, 512, 1023}
SampleCounts == {k * fftSize + r : k \in 0..MaxFrames, r \in TailLengths}

\* audio.channelData[0]: n samples; of the k-th run of fftSize samples the
\* first sample is first[k] and every later one is rest[k].
Audio(n, first, rest) == [n |-> n, first |-> first, rest |-> rest]
Blocks(n) == (n + fftSize - 1) \div fftSize
Audios ==
    UNION {{Audio(n, f, r) : f \in [1..Blocks(n) -> Amplitudes],
                              r \in [1..Blocks(n) -> Amplitudes]} :
             n \in SampleCounts}

\* samples[i], i counted from 0
SampleAt(a, i) ==
    IF i >= a.n THEN 0
    ELSE IF i % fftSize = 0 THEN a.first[i \div fftSize + 1]
    ELSE a.rest[i \div fftSize + 1]

\* A vector of len numbers whose element 0 is first and whose other
\* elements are all rest.
Vec(len, first, rest) == [len |-> len, first |-> first, rest |-> rest]

Abs(x) == IF x < 0 THEN 0 - x ELSE x
Min(x, y) == IF x < y THEN x ELSE y
Max(x, y) == IF x < y THEN y ELSE x

\* samples.slice(i, j), i at the start of a run
Slice(a, i, j) == Vec(Min(j, a.n) - i, SampleAt(a, i), SampleAt(a, i + 1))

\* fft(v) of fft-js for a real vector of this shape: bin 0 is the sum of the
\* elements, every other bin is first - rest; all bins are real.
fft(v) == Vec(v.len, v.first + (v.len - 1) * v.rest, v.first - v.rest)

\* util.fftMag(phasors): the magnitudes of the first half of the bins
fftMag(ph) == Vec(ph.len \div 2, Abs(ph.first), Abs(ph.rest))

\* win.slice(startBin, endBin) summed, and its length
BinSum(win, startBin, endBin) ==
    (IF startBin = 0 /\ endBin > 0 THEN win.first ELSE 0)
    + (Min(endBin, win.len) - Max(startBin, 1)) * win.rest
BinCount(win, startBin, endBin) == Min(endBin, win.len) - startBin

\* A quotient num / den the code computes in floating point, kept exact;
\* 0 / 0 is NaN.
Quot(num, den) == [num |-> num, den |-> den]

RECURSIVE SumBins(_, _, _)
SumBins(psd, startBin, endBin) ==
    IF Len(psd) = 0 THEN 0
    ELSE BinSum(Head(psd), startBin, endBin) + SumBins(Tail(psd), startBin, endBin)

\* averageBin(psd, startBin, endBin)
averageBin(psd, startBin, endBin) ==
    LET count == IF Len(psd) = 0 THEN 0
                 ELSE Len(psd) * BinCount(psd[1], startBin, endBin)
    IN  Quot(SumBins(psd, startBin, endBin), IF count = 0 THEN 1 ELSE count)

\* the sum of the squares of the samples, and the largest |sample|
SumSquares(a) ==
    LET RECURSIVE Go(_)
        Go(k) ==
            IF k > Blocks(a.n) THEN 0
            ELSE LET len == Min(fftSize, a.n - (k - 1) * fftSize)
                 IN  a.first[k] * a.first[k] + (len - 1) * a.rest[k] * a.rest[k]
                     + Go(k + 1)
    IN  Go(1)
Peak(a) ==
    LET RECURSIVE Go(_)
        Go(k) ==
            IF k > Blocks(a.n) THEN 0
            ELSE LET len == Min(fftSize, a.n - (k - 1) * fftSize)
                 IN  Max(Max(Abs(a.first[k]), IF len > 1 THEN Abs(a.rest[k]) ELSE 0),
                         Go(k + 1))
    IN  Go(1)

\* the loop condition of the PSD loop
HasFrame_strict(i, n) == i + fftSize < n
HasFrame(i, n) == i + fftSize <= n

RECURSIVE PsdFrom(_, _)
\* for (let i = 0; i + fftSize <= samples.length; i += fftSize) psd.push(mags)
PsdFrom(a, i) ==
    IF HasFrame(i, a.n)
    THEN <<fftMag(fft(Slice(a, i, i + fftSize)))>> \o PsdFrom(a, i + fftSize)
    ELSE <<>>

\* m > crestFactor * 0.8, with crestFactor = peak / (rms + 1e-12) and
\* rms = sqrt(sumSq / n), for a magnitude m >= 0: decided on the squares.
\* With sumSq = 0 the crest factor is 0; the 1e-12 settles equality of the
\* squares as "greater".
ExceedsCrest(m, peak, sumSq, n) ==
    /\ m > 0
    /\ \/ sumSq = 0
       \/ m * m >= peak * peak * n
       \/ 25 * m * m * sumSq >= 16 * peak * peak * n

\* win => util.fftMag(fft(win)).some(m => m > crestFactor * 0.8)
Transient(win, peak, sumSq, n) ==
    LET mags == fftMag(fft(win))
    IN  \/ mags.len >= 1 /\ ExceedsCrest(mags.first, peak, sumSq, n)
        \/ mags.len >= 2 /\ ExceedsCrest(mags.rest, peak, sumSq, n)

\* computeMetrics(wavBuffer), after the decode
computeMetrics(a) ==
    LET sumSq == SumSquares(a)
        peak == Peak(a)
        psd == PsdFrom(a, 0)
        bandPowers == [b \in {"63Hz", "125Hz"} |->
                          IF b = "63Hz" THEN averageBin(psd, 1, 2)
                          ELSE averageBin(psd, 2, 4)]
        transientWindows ==
            SelectSeq(psd, LAMBDA win : Transient(win, peak, sumSq, a.n))
        \* Math.sqrt(sum / samples.length), kept as the quotient under the root
        rms == [squareOf |-> Quot(sumSq, a.n)]
    IN  [rms |-> rms,
         psd |-> psd,
         bandPowers |-> bandPowers,
         \* 20 * log10(signal / (rms + 1e-12)), kept as its operands
         snr_db |-> [signalOf |-> bandPowers, rms |-> rms],
         \* peak / (rms + 1e-12), kept as its operands
         crestFactor |-> [peak |-> peak, rms |-> rms],
         \* transientWindows.length / (samples.length / fftSize) * 60
         transienceRate |-> Quot(Len(transientWindows) * fftSize * 60, a.n)]

\* the clip the decoder yields where the claims are not about analytics:
\* one frame, a click followed by silence
OneFrame == Audio(fftSize, <<0 - 1>>, <<0>>)

\* ------------------------------------------------------------------ state
Tasks == {"t1", "t2"}

VARIABLES
    tz,        \* host time-zone offset, hours
    served,    \* feed -> the playlist document its URL serves
    kind,      \* task -> "clip" (POST /clip), "batch" (POST /batch),
               \*         "cli" (manifest mode of main), "none"
    jobs,      \* task -> the ClipJobs the handler runs, in order
    idx,       \* task -> index of the job in flight (or next to start)
    summary,   \* task -> summary (cli) / results (batch) built so far
    response,  \* task -> what the handler answered
    pc,        \* task -> "ready", "fetch", "ffmpeg", "metrics", "done"
    loc,       \* task -> locals of the processJob call in flight
    dirs,      \* directories that exist under tmp/ and output/clips/
    files,     \* file path -> content
    effects,   \* history: I/O issued, tagged with task and job index
    faultLog,  \* history: environment faults injected so far
    now,       \* the host's clock, as new Date() reads it
    decoded    \* the samples wav-decoder yields for a clip's WAV file

vars == <<tz, served, kind, jobs, idx, summary, response, pc, loc,
          dirs, files, effects, faultLog, now, decoded>>

\* ----------------------------------------------------------------- errors
\* new Error(message): the message's fixed part, and the format and exit
\* code it interpolates (ffmpeg only).
Err(msg, fmt, code) == [msg |-> msg, fmt |-> fmt, code |-> code]
NoErr == Err("", "", 0)

NoUrls == [k \in {} |-> NoFile]

\* what a processJob call settles with: a rejection or { urls, hash }
Rejected(err) == [ok |-> FALSE, err |-> err, urls |-> NoUrls, hash |-> NoHash]
Resolved(urls, hash) == [ok |-> TRUE, err |-> NoErr, urls |-> urls, hash |-> hash]
NoRes == [ok |-> FALSE, err |-> NoErr, urls |-> NoUrls, hash |-> NoHash]

\* ----------------------------------------------------------------- locals
NoLoc ==
    [startTs |-> 0, endTs |-> 0, segments |-> <<>>, hash |-> NoHash,
     base |-> NoBase, tmpDir |-> NoDir, fi |-> 0, outputs |-> NoUrls]

CurJob(t) == jobs[t][idx[t]]

Eff(t, op, path, fmt) ==
    [t |-> t, j |-> idx[t], op |-> op, path |-> path, fmt |-> fmt]
Fault(t, at, key) == [t |-> t, j |-> idx[t], at |-> at, key |-> key]

Put(f, path, content) ==
    [q \in DOMAIN f \cup {path} |-> IF q = path THEN content ELSE f[q]]

\* What one run of processJob code between two awaits leaves behind:
\* either the call is parked at its next await (pc, loc) or it has settled.
Parked(at, l, d, f, e, fl) ==
    [settled |-> FALSE, res |-> NoRes, pc |-> at, loc |-> l,
     dirs |-> d, files |-> f, effects |-> e, faults |-> fl]
Settled(res, d, f, e, fl) ==
    [settled |-> TRUE, res |-> res, pc |-> "ready", loc |-> NoLoc,
     dirs |-> d, files |-> f, effects |-> e, faults |-> fl]
Throw(err, d, f, e, fl) == Settled(Rejected(err), d, f, e, fl)

\* ------------------------------------------------- processJob, step by step
\* the ffmpeg arguments of one format: codec flag and output file, if any
FfmpegCodec(fmt) ==
    CASE fmt = "wav" -> "pcm_s16le" [] fmt = "flac" -> "flac" [] OTHER -> ""
FfmpegOut(tmpDir, base, fmt) ==
    IF fmt \in {"wav", "flac"} THEN File(tmpDir, base, fmt) ELSE NoFile

\* meta.ffmpeg_args
MetaArgs(job, tmpDir, base) ==
    [i \in 1..Len(job.formats) |->
        [codec |-> FfmpegCodec(job.formats[i]),
         out |-> FfmpegOut(tmpDir, base, job.formats[i])]]

\* outputs[key] = path
SetOutput(outputs, key, path) ==
    [k \in DOMAIN outputs \cup {key} |-> IF k = key THEN path ELSE outputs[k]]

\* Steps 8 and 9: meta.json, output directory, copy loop, return.
\* failing is the write the environment lets throw, if any; badKeys are the
\* outputs whose copy fails.
Persist(t, l, outputs, d, f, e, failing, badKeys) ==
    LET job == CurJob(t)
        metaPath == File(l.tmpDir, l.base, "meta.json")
        meta == [kind |-> "meta", job |-> job, duration_s |-> l.base.dur,
                 segments |-> l.segments,
                 ffmpeg_args |-> MetaArgs(job, l.tmpDir, l.base),
                 files |-> outputs, sha256_hash |-> l.hash, created |-> now]
        f1 == Put(f, metaPath, meta)
        e1 == e \cup {Eff(t, "write", metaPath, "meta")}
        out2 == SetOutput(outputs, "meta", metaPath)
        outputDir == OutputDir(job.feedSlug, LocalDate(l.startTs, tz))
        needDir == outputDir \notin d
        keys == DOMAIN out2
        failed == {k \in keys : k \in badKeys \/ out2[k] \notin DOMAIN f1}
        copied == keys \ failed
        dest(k) == File(outputDir, out2[k].base, out2[k].ext)
        f2 == [q \in DOMAIN f1 \cup {dest(k) : k \in copied} |->
                 IF \E k \in copied : dest(k) = q
                 THEN f1[out2[CHOOSE k \in copied : dest(k) = q]]
                 ELSE f1[q]]
        e2 == e1 \cup {Eff(t, "copy", dest(k), k) : k \in copied}
        urls == [k \in copied |-> dest(k)]
        fl == {Fault(t, "copy", k) : k \in failed}
    IN  IF failing = "meta"
        THEN Throw(Err("write failed", "", 0), d, f, e, {Fault(t, "write", "meta")})
        ELSE IF needDir /\ failing = "mkdir"
        THEN Throw(Err("mkdir failed", "", 0), d, f1, e1, {Fault(t, "mkdir", "")})
        ELSE LET d2 == d \cup {outputDir}
                 e3 == IF needDir
                       THEN e2 \cup {Eff(t, "mkdir", File(outputDir, NoBase, ""), "")}
                       ELSE e2
             IN \* a failed copy is caught and logged inside the loop
                Settled(Resolved(urls, l.hash), d2, f2, e3, fl)

\* Step 7 up to its await: analytics only if 'psd' was requested.
AfterLoop(t, l, d, f, e, failing, badKeys) ==
    LET job == CurJob(t)
    IN  IF \E i \in 1..Len(job.formats) : job.formats[i] = "psd"
        THEN IF "wav" \notin DOMAIN l.outputs
             THEN \* fs.readFileSync(undefined)
                  Throw(Err("readFileSync: path must be a string", "", 0), d, f, e, {})
             ELSE IF l.outputs["wav"] \notin DOMAIN f
             THEN Throw(Err("readFileSync: ENOENT", "", 0), d, f, e, {})
             ELSE Parked("metrics", l, d, f,
                         e \cup {Eff(t, "read", l.outputs["wav"], "wav")}, {})
        ELSE Persist(t, l, l.outputs, d, f, e, failing, badKeys)

\* Head of the format loop at index i: spawn ffmpeg, or leave the loop.
FormatLoop(t, l, i, d, f, e, failing, badKeys) ==
    LET job == CurJob(t)
    IN  IF i <= Len(job.formats)
        THEN Parked("ffmpeg", [l EXCEPT !.fi = i], d, f,
                    e \cup {Eff(t, "spawn",
                                FfmpegOut(l.tmpDir, l.base, job.formats[i]),
                                job.formats[i])}, {})
        ELSE AfterLoop(t, l, d, f, e, failing, badKeys)

\* the check after the filter
EmptySelection_unchecked(segments) == FALSE
EmptySelection(segments) == Len(segments) = 0

\* Step 1 and the start of step 2: validation, then the playlist request.
Begin(t) ==
    LET job == CurJob(t)
        startTs == DateParse(job.start)
        endTs == DateParse(job.end)
    IN  IF InvalidWindow(startTs, endTs)
        THEN Throw(Err("Invalid time window", "", 0), dirs, files, effects, {})
        ELSE IF job.m3u8Url = NoUrl
        THEN \* 'm3u8Url is required', caught and rethrown by the same catch
             Throw(Err("Failed to fetch playlist", "", 0), dirs, files, effects, {})
        ELSE Parked("fetch", [NoLoc EXCEPT !.startTs = startTs, !.endTs = endTs],
                    dirs, files,
                    effects \cup {Eff(t, "fetch", NoFile, "")}, {})

\* axios.get rejected
FetchRejected(t) ==
    Throw(Err("Failed to fetch playlist", "", 0), dirs, files, effects,
          {Fault(t, "fetch", "")})

\* Steps 2 (after the response) to 6 (first spawn).
FetchResolved(t, failing, badKeys) ==
    LET job == CurJob(t)
        l == loc[t]
        playlist == served[job.m3u8Url.feed]
        segments == SelectSegments(playlist.segments, l.startTs, l.endTs)
        hash == Fingerprint(job)
        base == Base(job, l.startTs, l.endTs)
        tmpDir == TmpDir(base, hash)
        listFile == File(tmpDir, NoBase, "segments.txt")
        l2 == [l EXCEPT !.segments = segments, !.hash = hash, !.base = base,
                        !.tmpDir = tmpDir]
        d2 == dirs \cup {tmpDir}
        f2 == Put(files, listFile,
                  [kind |-> "list", uris |-> [i \in 1..Len(segments) |-> segments[i].uri]])
        e2 == effects \cup {Eff(t, "mkdir", File(tmpDir, NoBase, ""), ""),
                            Eff(t, "write", listFile, "")}
    IN  IF playlist.isMasterPlaylist
        THEN Throw(Err("Provided playlist is a MasterPlaylist", "", 0),
                   dirs, files, effects, {})
        ELSE IF EmptySelection(segments)
        THEN Throw(Err("No segments in range", "", 0), dirs, files, effects, {})
        ELSE IF failing = "list"
        THEN Throw(Err("write failed", "", 0), d2, files,
                   effects \cup {Eff(t, "mkdir", File(tmpDir, NoBase, ""), "")},
                   {Fault(t, "write", "list")})
        ELSE FormatLoop(t, l2, 1, d2, f2, e2, failing, badKeys)

\* proc.on('error') or a non-zero exit code
FfmpegFailed(t, code) ==
    LET fmt == CurJob(t).formats[loc[t].fi]
    IN  Throw(IF code = 0 - 1 THEN Err("spawn error", "", code)
              ELSE Err("ffmpeg exited", fmt, code),
              dirs, files, effects, {Fault(t, "ffmpeg", fmt)})

\* exit code 0: outputs[fmt] = outFile, next format or the steps after the loop
FfmpegSucceeded(t, failing, badKeys) ==
    LET job == CurJob(t)
        l == loc[t]
        fmt == job.formats[l.fi]
        outFile == File(l.tmpDir, l.base, fmt)
        \* the tool writes the file it was given as output, if it was given one
        f2 == IF FfmpegOut(l.tmpDir, l.base, fmt) = NoFile THEN files
              ELSE Put(files, outFile,
                       [kind |-> "audio", codec |-> FfmpegCodec(fmt),
                        uris |-> [i \in 1..Len(l.segments) |-> l.segments[i].uri]])
        l2 == [l EXCEPT !.outputs = SetOutput(l.outputs, fmt, outFile)]
    IN  FormatLoop(t, l2, l.fi + 1, dirs, f2, effects, failing, badKeys)

\* computeMetrics rejected (decode)
MetricsRejected_outputsCopied(t) ==
    LET s == Persist(t, loc[t], loc[t].outputs, dirs, files, effects, "none", {})
    IN  Throw(Err("decode failed", "", 0), s.dirs, s.files, s.effects,
              {Fault(t, "decode", "")})
MetricsRejected(t) ==
    Throw(Err("decode failed", "", 0), dirs, files, effects, {Fault(t, "decode", "")})

\* computeMetrics resolved: metrics JSON, then steps 8 and 9
MetricsResolved(t, failing, badKeys) ==
    LET l == loc[t]
        metricsPath == File(l.tmpDir, l.base, "psd.json")
        f2 == Put(files, metricsPath,
                  [kind |-> "metrics", of |-> files[l.outputs["wav"]],
                   metrics |-> computeMetrics(decoded)])
        e2 == effects \cup {Eff(t, "write", metricsPath, "psd")}
    IN  IF failing = "psd"
        THEN Throw(Err("write failed", "", 0), dirs, files, effects,
                   {Fault(t, "write", "psd")})
        ELSE Persist(t, l, SetOutput(l.outputs, "psd", metricsPath),
                     dirs, f2, e2, failing, badKeys)

\* ------------------------------------------------------- callers of processJob
\* { ...a, ...b }
Merge(a, b) ==
    [k \in DOMAIN a \cup DOMAIN b |-> IF k \in DOMAIN b THEN b[k] ELSE a[k]]

\* a manifest row and the ClipJob main() builds from it
Row(feedSlug, start, end) ==
    [feedSlug |-> feedSlug, start |-> start, end |-> end, feedId |-> NoFeedId]
JobOfRow(row, argvFormats, argvOut) ==
    ClipJob(row.feedId, row.feedSlug, row.start, row.end, argvFormats,
            PlaylistUrl(row.feedSlug), argvOut)

\* summary.push(...) of main(), manifest mode
CliEntry_errorOnSuccess(job, res) ==
    Merge([feedSlug |-> job.feedSlug, start |-> job.start, end |-> job.end,
           comment |-> "", error |-> res.err], res.urls)
CliEntry(job, res) ==
    IF res.ok
    THEN Merge([feedSlug |-> job.feedSlug, start |-> job.start, end |-> job.end,
                comment |-> ""], res.urls)
    ELSE [feedSlug |-> job.feedSlug, start |-> job.start, end |-> job.end,
          comment |-> "", error |-> res.err]

\* results.push(...) of POST /batch
ApiEntry(job, res) ==
    IF res.ok
    THEN Merge(job, [urls |-> res.urls, hash |-> res.hash])
    ELSE Merge(job, [error |-> res.err])

\* the index the batch loop goes on with after a job threw
AfterCatch_abort(i, n) == n + 1
AfterCatch(i, n) == i + 1

NoResponse == [status |-> 0 - 1, body |-> <<>>]

\* "Write summary to correct output directory": after the last row
PairsFile(t) ==
    LET first == jobs[t][1]
        date == LocalDate(DateParse(first.start), tz)
    IN  File(OutputDir(first.feedSlug, date), NoBase, "pairs.json")

\* The state after a run of processJob code, the caller's continuation
\* included when the call has settled.
Apply(t, s) ==
    LET job == CurJob(t)
        n == Len(jobs[t])
        entry == IF kind[t] = "cli" THEN CliEntry(job, s.res) ELSE ApiEntry(job, s.res)
        sum2 == Append(summary[t], entry)
        next == IF s.res.ok THEN idx[t] + 1 ELSE AfterCatch(idx[t], n)
        pairs == PairsFile(t)
    IN  /\ faultLog' = faultLog \cup s.faults
        /\ loc' = [loc EXCEPT ![t] = s.loc]
        /\ UNCHANGED <<tz, served, kind, jobs, now, decoded>>
        /\ IF ~s.settled
           THEN /\ pc' = [pc EXCEPT ![t] = s.pc]
                /\ dirs' = s.dirs /\ files' = s.files /\ effects' = s.effects
                /\ UNCHANGED <<idx, summary, response>>
           ELSE IF kind[t] = "clip"
           THEN /\ pc' = [pc EXCEPT ![t] = "done"]
                /\ response' = [response EXCEPT ![t] =
                       IF s.res.ok
                       THEN [status |-> 200,
                             body |-> [urls |-> s.res.urls, hash |-> s.res.hash]]
                       ELSE [status |-> 400, body |-> [error |-> s.res.err]]]
                /\ dirs' = s.dirs /\ files' = s.files /\ effects' = s.effects
                /\ UNCHANGED <<idx, summary>>
           ELSE /\ summary' = [summary EXCEPT ![t] = sum2]
                /\ idx' = [idx EXCEPT ![t] = next]
                /\ pc' = [pc EXCEPT ![t] = IF next > n THEN "done" ELSE "ready"]
                /\ IF next <= n
                   THEN /\ dirs' = s.dirs /\ files' = s.files /\ effects' = s.effects
                        /\ UNCHANGED response
                   ELSE IF kind[t] = "batch"
                   THEN /\ response' = [response EXCEPT ![t] =
                               [status |-> 200, body |-> [results |-> sum2]]]
                        /\ dirs' = s.dirs /\ files' = s.files /\ effects' = s.effects
                   ELSE \* main(): pairs.json into the first row's directory
                        /\ response' = [response EXCEPT ![t] =
                               [status |-> 0, body |-> <<>>]]
                        /\ dirs' = s.dirs \cup {pairs.dir}
                        /\ files' = Put(s.files, pairs,
                                        [kind |-> "pairs", summary |-> sum2])
                        /\ effects' = s.effects \cup
                               {[t |-> t, j |-> 0, op |-> "write", path |-> pairs,
                                 fmt |-> "pairs"]}

\* ------------------------------------------------------------ environment
OutputKeys == {"wav", "flac", "psd", "meta"}
Budget == MaxFaults - Cardinality(faultLog)

\* the writes that throw when they fail: segments.txt, the metrics JSON,
\* the metadata JSON, the output directory
ThrowingWrites == {"list", "psd", "meta", "mkdir"}

\* which writes of steps 4 to 9 the environment lets fail
WriteFaults ==
    {w \in ({"none"} \cup ThrowingWrites) \X SUBSET OutputKeys :
        IF w[1] # "none" THEN w[2] = {} /\ Budget >= 1
        ELSE Cardinality(w[2]) <= Budget}

\* ---------------------------------------------------------------- actions
\* processJob(job) is called and runs to its first await
BeginJob(t) ==
    /\ kind[t] # "none" /\ pc[t] = "ready" /\ idx[t] <= Len(jobs[t])
    /\ Apply(t, Begin(t))

FetchFails(t) ==
    /\ pc[t] = "fetch" /\ Budget >= 1
    /\ Apply(t, FetchRejected(t))

FetchDone(t) ==
    /\ pc[t] = "fetch"
    /\ \E w \in WriteFaults : Apply(t, FetchResolved(t, w[1], w[2]))

FfmpegFails(t) ==
    /\ pc[t] = "ffmpeg" /\ Budget >= 1
    /\ \E code \in {0 - 1, 1} : Apply(t, FfmpegFailed(t, code))

FfmpegExitsZero(t) ==
    /\ pc[t] = "ffmpeg"
    /\ \E w \in WriteFaults : Apply(t, FfmpegSucceeded(t, w[1], w[2]))

MetricsFails(t) ==
    /\ pc[t] = "metrics" /\ Budget >= 1
    /\ Apply(t, MetricsRejected(t))

MetricsDone(t) ==
    /\ pc[t] = "metrics"
    /\ \E w \in WriteFaults : Apply(t, MetricsResolved(t, w[1], w[2]))

\* a batch with no job: the loop body never runs
EmptyBatch(t) ==
    /\ kind[t] \in {"cli", "batch"} /\ pc[t] = "ready" /\ Len(jobs[t]) = 0
    /\ pc' = [pc EXCEPT ![t] = "done"]
    /\ response' = [response EXCEPT ![t] =
           IF kind[t] = "batch" THEN [status |-> 200, body |-> [results |-> <<>>]]
           ELSE [status |-> 0, body |-> <<>>]]
    /\ UNCHANGED <<tz, served, kind, jobs, idx, summary, loc, dirs, files,
                   effects, faultLog, now, decoded>>

\* the clock moves on
MaxClock == 1     \* clock readings after the first

Tick ==
    /\ now < MaxClock
    /\ now' = now + 1
    /\ UNCHANGED <<tz, served, kind, jobs, idx, summary, response, pc, loc,
                   dirs, files, effects, faultLog, decoded>>

ProcessJobStep(t) ==
    \/ BeginJob(t)
    \/ FetchFails(t)
    \/ FetchDone(t)
    \/ FfmpegFails(t)
    \/ FfmpegExitsZero(t)
    \/ MetricsFails(t)
    \/ MetricsDone(t)

\* --------------------------------------------------------- specifications
InitCommon ==
    /\ tz \in TzOffsets
    /\ idx = [t \in Tasks |-> 1]
    /\ summary = [t \in Tasks |-> <<>>]
    /\ response = [t \in Tasks |-> NoResponse]
    /\ pc = [t \in Tasks |-> "ready"]
    /\ loc = [t \in Tasks |-> NoLoc]
    /\ dirs = {}
    /\ files = [q \in {} |-> 0]
    /\ effects = {}
    /\ faultLog = {}
    /\ now = 0

\* One POST /clip request with any job, against any served playlist.
RequestJobs ==
    {j \in ClipJobs :
        /\ j.feedId = NoFeedId /\ j.out = "local" /\ j.feedSlug = "orcasound_lab"
        /\ j.m3u8Url \in {NoUrl, PlaylistUrl(j.feedSlug)}}

InitJob ==
    /\ InitCommon
    /\ \E p \in MediaPlaylists \cup {MasterPlaylist} : served = [f \in Feeds |-> p]
    /\ decoded = OneFrame
    /\ kind = [t \in Tasks |-> IF t = "t1" THEN "clip" ELSE "none"]
    /\ \E job \in RequestJobs :
          jobs = [t \in Tasks |-> IF t = "t1" THEN <<job>> ELSE <<>>]

NextJob == \E t \in Tasks : ProcessJobStep(t)

SpecJob == InitJob /\ [][NextJob]_vars

\* One batch (manifest run of main(), or POST /batch) of up to MaxJobs rows.
ManifestRows ==
    {Row("orcasound_lab", T_0100Z, T_0200Z),        \* valid
     Row("orcasound_lab", T_0200Z, T_0100Z),        \* end before start
     Row("orcasound_lab", T_D2_0100Z, T_D2_0200Z),  \* valid, next day
     Row("bush_point", T_0100Z, T_0200Z)}           \* valid, other feed

\* playlists a batch runs against: a segment at 01:00Z of day 1 and one at
\* 01:00Z of day 2, or no segment at all
BatchPlaylists ==
    {[isMasterPlaylist |-> FALSE,
      segments |-> <<Segment(1, TRUE, 25 * HourMs), Segment(2, TRUE, 49 * HourMs)>>],
     [isMasterPlaylist |-> FALSE, segments |-> <<>>]}

InitBatch ==
    /\ InitCommon
    /\ \E p \in BatchPlaylists : served = [f \in Feeds |-> p]
    /\ decoded = OneFrame
    /\ \E k \in {"cli", "batch"} :
          kind = [t \in Tasks |-> IF t = "t1" THEN k ELSE "none"]
    /\ \E n \in 0..MaxJobs, fm \in {<<"wav">>, <<"wav", "psd">>} :
          \E rows \in [1..n -> ManifestRows] :
              jobs = [t \in Tasks |->
                        IF t = "t1"
                        THEN [i \in 1..n |-> JobOfRow(rows[i], fm, "local")]
                        ELSE <<>>]

NextBatch == \E t \in Tasks : ProcessJobStep(t) \/ EmptyBatch(t)

SpecBatch == InitBatch /\ [][NextBatch]_vars

\* Two requests to the API server, the second arriving while the handler of
\* the first is at an await: POST /clip or POST /batch, then POST /clip.
\* The jobs ask for the same feed and window, with one of two format lists.
ServerJobs ==
    {ClipJob(NoFeedId, "orcasound_lab", T_0100Z, T_0200Z, fm,
             PlaylistUrl("orcasound_lab"), "local") :
        fm \in {<<"wav">>, <<"wav", "psd">>}}

InitServer ==
    /\ InitCommon
    /\ served = [f \in Feeds |->
                   [isMasterPlaylist |-> FALSE,
                    segments |-> <<Segment(1, TRUE, 25 * HourMs)>>]]
    /\ decoded = OneFrame
    /\ \E k \in {"clip", "batch"} :
          kind = [t \in Tasks |-> IF t = "t1" THEN k ELSE "clip"]
    /\ \E a \in ServerJobs, b \in ServerJobs :
          jobs = [t \in Tasks |-> IF t = "t1" THEN <<a>> ELSE <<b>>]

NextServer ==
    \/ \E t \in Tasks : ProcessJobStep(t)
    \/ Tick

SpecServer == InitServer /\ [][NextServer]_vars

\* One POST /clip request that asks for the WAV file and the metrics, for
\* any decoded clip.
InitMetrics ==
    /\ InitCommon
    /\ served = [f \in Feeds |->
                   [isMasterPlaylist |-> FALSE,
                    segments |-> <<Segment(1, TRUE, 25 * HourMs)>>]]
    /\ decoded \in Audios
    /\ kind = [t \in Tasks |-> IF t = "t1" THEN "clip" ELSE "none"]
    /\ \E fm \in {<<"wav", "psd">>, <<"psd", "wav">>} :
          jobs = [t \in Tasks |->
                    IF t = "t1"
                    THEN <<ClipJob(NoFeedId, "orcasound_lab", T_0100Z, T_0200Z, fm,
                                   PlaylistUrl("orcasound_lab"), "local")>>
                    ELSE <<>>]

NextMetrics == \E t \in Tasks : ProcessJobStep(t)

SpecMetrics == InitMetrics /\ [][NextMetrics]_vars

\* ================================================================ claims
\* What is observable of segment selection: the locals of a call parked
\* after the filter, and the segment list recorded in every metadata file.
IsParked(t) == kind[t] # "none" /\ pc[t] \in {"ffmpeg", "metrics"}

Selections ==
    {[job |-> CurJob(t), segs |-> loc[t].segments] : t \in {u \in Tasks : IsParked(u)}}
    \cup {[job |-> files[q].job, segs |-> files[q].segments] :
            q \in {r \in DOMAIN files : r.ext = "meta.json" /\ r.dir.root = "tmp"}}

PlaylistOf(job) == served[job.m3u8Url.feed].segments

InWindow(seg, job) ==
    /\ seg.hasPdt
    /\ DateParse(job.start) <= seg.pdt
    /\ seg.pdt < DateParse(job.end)

\* C1: every selected segment is a playlist segment that has a timestamp ts
\* with start <= ts < end, and the selected segments keep the relative
\* order they have in the playlist.
C1_SelectionSound ==
    \A x \in Selections :
        LET pl == PlaylistOf(x.job)
        IN  /\ \A i \in 1..Len(x.segs) :
                  /\ InWindow(x.segs[i], x.job)
                  /\ x.segs[i].uri \in 1..Len(pl)
                  /\ pl[x.segs[i].uri] = x.segs[i]
            /\ \A i, k \in 1..Len(x.segs) : i < k => x.segs[i].uri < x.segs[k].uri

\* two segments selected from a two-segment playlist that lists the later
\* instant first: playlist order, not time order, is kept
C1_Witness ==
    \E x \in Selections :
        /\ Len(x.segs) = 2
        /\ x.segs[1].pdt > x.segs[2].pdt

\* C2: every playlist segment whose timestamp lies in [start, end) is
\* selected: ts = start is in, ts = end is out; and the empty-selection
\* error is raised only when no playlist segment lies in the window.
C2_SelectionComplete ==
    /\ \A x \in Selections :
          \A k \in 1..Len(PlaylistOf(x.job)) :
              InWindow(PlaylistOf(x.job)[k], x.job)
                  <=> \E i \in 1..Len(x.segs) : x.segs[i] = PlaylistOf(x.job)[k]
    /\ \A t \in Tasks :
          (kind[t] = "clip" /\ pc[t] = "done" /\ response[t].status = 400
             /\ response[t].body.error.msg = "No segments in range")
          => \A k \in 1..Len(PlaylistOf(CurJob(t))) :
                 ~InWindow(PlaylistOf(CurJob(t))[k], CurJob(t))

\* a playlist with one segment exactly at start and one exactly at end:
\* the first is selected, the second is not
C2_Witness ==
    \E x \in Selections :
        LET pl == PlaylistOf(x.job)
        IN  /\ Len(pl) = 2 /\ Len(x.segs) = 1
            /\ pl[1].hasPdt /\ pl[1].pdt = DateParse(x.job.start)
            /\ pl[2].hasPdt /\ pl[2].pdt = DateParse(x.job.end)
            /\ x.segs[1] = pl[1]

\* The fingerprints observable: the hash local of a call parked after step
\* 3, and the hash a POST /clip request answered with.
Fingerprints ==
    {[job |-> CurJob(t), hash |-> loc[t].hash] : t \in {u \in Tasks : IsParked(u)}}
    \cup {[job |-> CurJob(t), hash |-> response[t].body.hash] :
            t \in {u \in Tasks : kind[u] = "clip" /\ pc[u] = "done"
                                   /\ response[u].status = 200}}

SameFormatSet(f, g) ==
    {f[i] : i \in 1..Len(f)} = {g[i] : i \in 1..Len(g)}

\* C3: a job that differs from the one fingerprinted only in the order of
\* its formats has the same fingerprint.
C3_FormatOrderIrrelevant ==
    \A x \in Fingerprints :
        \A fm \in FormatLists :
            SameFormatSet(fm, x.job.formats)
                => Fingerprint([x.job EXCEPT !.formats = fm]) = x.hash

\* C4: a job with the same feed, the same start instant, the same end
\* instant and the same formats has the same fingerprint, whatever its
\* feedId, destination, playlist URL or spelling of the instants.
C4_FingerprintOfDefiningFields ==
    \A x \in Fingerprints :
        \A j \in ClipJobs :
            (/\ j.feedSlug = x.job.feedSlug
             /\ DateParse(j.start) = DateParse(x.job.start)
             /\ DateParse(j.end) = DateParse(x.job.end)
             /\ j.formats = x.job.formats)
                => Fingerprint(j) = x.hash

\* I/O a job has issued so far
EffectsOf(t, j) == {e \in effects : e.t = t /\ e.j = j}

WindowIsInvalid(job) ==
    \/ ~job.start.ok
    \/ ~job.end.ok
    \/ DateParse(job.end) <= DateParse(job.start)

\* C5: a job whose window is invalid issues no I/O at all (no fetch, no
\* directory, no file, no tool) and is answered with the invalid-window
\* error.
C5_InvalidWindowBeforeIO ==
    \A t \in Tasks :
        (kind[t] = "clip" /\ WindowIsInvalid(CurJob(t)))
        => /\ EffectsOf(t, idx[t]) = {}
           /\ dirs = {} /\ DOMAIN files = {}
           /\ pc[t] \in {"ready", "done"}
           /\ pc[t] = "done" =>
                 /\ response[t].status = 400
                 /\ response[t].body.error.msg = "Invalid time window"

\* an answered job whose start and end are the same instant in two spellings
C5_Witness ==
    \E t \in Tasks :
        /\ kind[t] = "clip" /\ pc[t] = "done"
        /\ CurJob(t).start.ok /\ CurJob(t).end.ok
        /\ CurJob(t).start # CurJob(t).end
        /\ DateParse(CurJob(t).start) = DateParse(CurJob(t).end)
        /\ CurJob(t).m3u8Url # NoUrl

NoSegmentInWindow(job) ==
    \A k \in 1..Len(PlaylistOf(job)) : ~InWindow(PlaylistOf(job)[k], job)

\* C6: when the fetched media playlist has no segment in a valid window,
\* the job creates no directory and no file and spawns no tool, and it is
\* answered with the empty-selection error, not the playlist-fetch error.
C6_EmptySelection ==
    \A t \in Tasks :
        (/\ kind[t] = "clip"
         /\ ~WindowIsInvalid(CurJob(t))
         /\ CurJob(t).m3u8Url # NoUrl
         /\ ~served[CurJob(t).m3u8Url.feed].isMasterPlaylist
         /\ NoSegmentInWindow(CurJob(t)))
        => /\ EffectsOf(t, idx[t]) \subseteq {Eff(t, "fetch", NoFile, "")}
           /\ dirs = {} /\ DOMAIN files = {}
           /\ (pc[t] = "done" /\ \A x \in faultLog : x.at # "fetch")
                 => /\ response[t].status = 400
                    /\ response[t].body.error.msg = "No segments in range"
                    /\ response[t].body.error.msg # "Failed to fetch playlist"

\* answered with the empty-selection error although the playlist has
\* segments (none of them in the window)
C6_Witness ==
    \E t \in Tasks :
        /\ kind[t] = "clip" /\ pc[t] = "done"
        /\ CurJob(t).m3u8Url # NoUrl
        /\ Len(PlaylistOf(CurJob(t))) = 2
        /\ response[t].status = 400
        /\ response[t].body.error.msg = "No segments in range"
        /\ dirs = {}

\* ---------------------------------------------------------------- batches
IsBatch(t) == kind[t] \in {"cli", "batch"}

\* keys a summary entry has only when processJob returned a result
ResultKeys == {"wav", "flac", "psd", "meta", "urls", "hash"}

EntryOfJob(en, job) ==
    en.feedSlug = job.feedSlug /\ en.start = job.start /\ en.end = job.end

\* the summary as delivered: the results of the response, or pairs.json
Delivered(t) ==
    IF kind[t] = "batch" THEN response[t].body.results
    ELSE files[PairsFile(t)].summary

\* C7: the summary has one entry per job attempted, in input order; at the
\* end it has exactly n entries and is what the batch delivers; no entry
\* that carries an error carries a result.
C7_SummaryComplete ==
    \A t \in Tasks :
        IsBatch(t) =>
            /\ Len(summary[t]) = idx[t] - 1
            /\ \A i \in 1..Len(summary[t]) :
                  /\ EntryOfJob(summary[t][i], jobs[t][i])
                  /\ "error" \in DOMAIN summary[t][i]
                        => DOMAIN summary[t][i] \cap ResultKeys = {}
            /\ pc[t] = "done" =>
                  /\ Len(summary[t]) = Len(jobs[t])
                  /\ Len(jobs[t]) > 0 => Delivered(t) = summary[t]

\* a finished manifest run of two rows: the first succeeded, the second,
\* with a valid window, failed
C7_Witness ==
    \E t \in Tasks :
        /\ kind[t] = "cli" /\ pc[t] = "done" /\ Len(jobs[t]) = 2
        /\ "error" \notin DOMAIN summary[t][1]
        /\ "wav" \in DOMAIN summary[t][1]
        /\ ~WindowIsInvalid(jobs[t][2])
        /\ "error" \in DOMAIN summary[t][2]

InvalidJobs(t) == {i \in 1..Len(jobs[t]) : WindowIsInvalid(jobs[t][i])}
ErrorEntries(t) == {i \in 1..Len(summary[t]) : "error" \in DOMAIN summary[t][i]}

\* the artifact paths of an entry: spread into it (cli) or under urls (batch)
PathsOf(t, en) == IF kind[t] = "cli" THEN en ELSE en.urls

HasArtifactPaths(t, i) ==
    LET en == summary[t][i]
        want == {jobs[t][i].formats[k] : k \in 1..Len(jobs[t][i].formats)} \cup {"meta"}
    IN  \A f \in want :
            /\ f \in DOMAIN PathsOf(t, en)
            /\ PathsOf(t, en)[f].dir.root = "output/clips"
            /\ PathsOf(t, en)[f] \in DOMAIN files

\* C8: in a finished batch every job with an invalid window is marked as
\* error with the invalid-window message, and every other job was attempted
\* (its playlist was requested) wherever it stands in the batch; when the
\* other jobs meet no fault and find segments, the summary has n entries,
\* exactly the k invalid ones marked as error, and the n-k others carry the
\* paths of all their artifacts.
C8_PartialFailure ==
    \A t \in Tasks :
        (IsBatch(t) /\ pc[t] = "done") =>
            /\ \A i \in InvalidJobs(t) :
                  /\ i \in ErrorEntries(t)
                  /\ summary[t][i].error.msg = "Invalid time window"
            /\ \A i \in (1..Len(jobs[t])) \ InvalidJobs(t) :
                  \E e \in EffectsOf(t, i) : e.op = "fetch"
            /\ (/\ faultLog = {}
                /\ \A i \in (1..Len(jobs[t])) \ InvalidJobs(t) :
                       ~NoSegmentInWindow(jobs[t][i]))
               => /\ Len(summary[t]) = Len(jobs[t])
                  /\ ErrorEntries(t) = InvalidJobs(t)
                  /\ \A i \in (1..Len(jobs[t])) \ InvalidJobs(t) :
                        HasArtifactPaths(t, i)

\* a finished batch of two jobs, the first with an invalid window, the
\* second completed with its artifacts
C8_Witness ==
    \E t \in Tasks :
        /\ IsBatch(t) /\ pc[t] = "done" /\ Len(jobs[t]) = 2
        /\ InvalidJobs(t) = {1}
        /\ faultLog = {}
        /\ ErrorEntries(t) = {1}
        /\ HasArtifactPaths(t, 2)

\* the partition directory of a job's group: feed and start date
GroupDir(job) == OutputDir(job.feedSlug, LocalDate(DateParse(job.start), tz))

\* C9: after a manifest batch, every (feed, start date) group among its jobs
\* has a summary document in its own partition directory, and that document
\* has an entry for each job of the group.
C9_SummaryPerGroup ==
    \A t \in Tasks :
        (kind[t] = "cli" /\ pc[t] = "done") =>
            \A i \in 1..Len(jobs[t]) :
                LET doc == File(GroupDir(jobs[t][i]), NoBase, "pairs.json")
                IN  /\ doc \in DOMAIN files
                    /\ \E k \in 1..Len(files[doc].summary) :
                          EntryOfJob(files[doc].summary[k], jobs[t][i])

\* C10: a job one of whose copies into the destination tree failed is
\* answered as failed, and the files copied before stay in place.
C10_WriteFailureFailsJob ==
    \A t \in Tasks :
        (/\ kind[t] = "clip" /\ pc[t] = "done"
         /\ \E x \in faultLog : x.t = t /\ x.at = "copy")
        => /\ response[t].status = 400
           /\ \A e \in EffectsOf(t, idx[t]) : e.op = "copy" => e.path \in DOMAIN files

\* ------------------------------------------------------- tool, analytics
\* the format whose ffmpeg run failed in the job of task t, if one did
FailedFormats(t) == {x.key : x \in {y \in faultLog : y.t = t /\ y.at = "ffmpeg"}}

\* C11: a job whose tool run for a format exited non-zero or could not be
\* launched is answered with an error that names that format and the exit
\* code or launch error.
C11_ToolErrorNamesFormat ==
    \A t \in Tasks :
        (kind[t] = "clip" /\ pc[t] = "done" /\ FailedFormats(t) # {})
        => /\ response[t].status = 400
           /\ response[t].body.error.fmt \in FailedFormats(t)
           /\ response[t].body.error.code # 0

\* the metrics documents written so far
MetricsDocs ==
    {files[q].metrics : q \in {r \in DOMAIN files : files[r].kind = "metrics"}}

\* the magnitude spectrum of the samples [j * fftSize, (j + 1) * fftSize),
\* from the samples themselves
SpectrumOfFrame(a, j) ==
    Vec(fftSize \div 2,
        Abs(a.first[j + 1] + (fftSize - 1) * a.rest[j + 1]),
        Abs(a.first[j + 1] - a.rest[j + 1]))

\* C14: the PSD of N samples has exactly N div 1024 frames, and frame j is
\* the spectrum of the samples [j * 1024, (j + 1) * 1024); trailing samples
\* that do not fill a frame add no frame.
C14_PsdFraming ==
    \A m \in MetricsDocs :
        /\ Len(m.psd) = decoded.n \div fftSize
        /\ \A j \in 0..(Len(m.psd) - 1) :
              m.psd[j + 1] = SpectrumOfFrame(decoded, j)

\* two complete frames with different spectra, followed by a partial frame
C14_Witness ==
    \E m \in MetricsDocs :
        /\ decoded.n % fftSize # 0
        /\ Len(m.psd) = 2
        /\ m.psd[1] # m.psd[2]

\* a frame is transient by its own magnitude spectrum
OwnSpectrumTransient(win, a) ==
    \/ ExceedsCrest(win.first, Peak(a), SumSquares(a), a.n)
    \/ ExceedsCrest(win.rest, Peak(a), SumSquares(a), a.n)

\* C15: the transience rate is (transient frames / frames) * 60, the frames
\* being those of the PSD and a frame being transient when a bin of its own
\* magnitude spectrum exceeds crestFactor * 0.8.
C15_TransienceRate ==
    \A m \in MetricsDocs :
        LET total == Len(m.psd)
            count == Cardinality({j \in 1..total :
                                    OwnSpectrumTransient(m.psd[j], decoded)})
        IN  total > 0
            => m.transienceRate.num * total = count * 60 * m.transienceRate.den

\* C18: every run of the tool is for an audio format and carries a codec
\* flag and an output file; asking for metrics starts no run of its own.
C18_ToolRunsForAudioOnly ==
    \A e \in effects :
        e.op = "spawn"
        => /\ e.fmt \in {"wav", "flac"}
           /\ FfmpegCodec(e.fmt) # ""
           /\ e.path # NoFile

WantsMetrics(job) == \E i \in 1..Len(job.formats) : job.formats[i] = "psd"

\* C19: step 7 starts only with the job's own WAV file in place: no job
\* fails reading it, and a job parked in computeMetrics has read the WAV
\* file of its own temp directory; a job that did not ask for metrics reads
\* no WAV file and writes no metrics document.
C19_MetricsFromOwnWav ==
    \A t \in Tasks :
        kind[t] = "clip" =>
            /\ (pc[t] = "done" /\ response[t].status = 400)
                  => response[t].body.error.msg \notin
                        {"readFileSync: path must be a string", "readFileSync: ENOENT"}
            /\ pc[t] = "metrics"
                  => /\ "wav" \in DOMAIN loc[t].outputs
                     /\ loc[t].outputs["wav"] = File(loc[t].tmpDir, loc[t].base, "wav")
                     /\ loc[t].outputs["wav"] \in DOMAIN files
            /\ ~WantsMetrics(CurJob(t))
                  => /\ pc[t] # "metrics"
                     /\ \A e \in EffectsOf(t, idx[t]) : e.op # "read" /\ e.fmt # "psd"

\* ------------------------------------------------------ destination tree
InDestination(path) == path.dir.root = "output/clips"

\* C17: a job that has not returned, or that ended in error, has created no
\* directory and no file in the destination tree and has issued no mkdir or
\* copy there, whichever step failed.
C17_ErrorLeavesDestination ==
    \A t \in Tasks :
        (kind[t] = "clip" /\ (pc[t] # "done" \/ response[t].status = 400))
        => /\ \A e \in EffectsOf(t, idx[t]) : ~InDestination(e.path)
           /\ \A d \in dirs : d.root # "output/clips"
           /\ \A q \in DOMAIN files : ~InDestination(q)

\* a job that failed at the metadata write, after the tool had written the
\* WAV file and the metrics had been written to the temp directory
C17_Witness ==
    \E t \in Tasks :
        /\ kind[t] = "clip" /\ pc[t] = "done" /\ response[t].status = 400
        /\ \E x \in faultLog : x.t = t /\ x.at = "write" /\ x.key = "meta"
        /\ \E q \in DOMAIN files : files[q].kind = "audio"
        /\ \E q \in DOMAIN files : files[q].kind = "metrics"
        /\ \A q \in DOMAIN files : ~InDestination(q)

\* C20: every artifact in the destination tree lies in the partition
\* directory of the calendar date its base name carries.
C20_PartitionDateIsNameDate ==
    \A q \in DOMAIN files :
        (InDestination(q) /\ q.base # NoBase) => q.dir.date = q.base.dt.date

\* -------------------------------------------------------- overlapping jobs
\* the files a job has written or copied
FileEffects == {e \in effects : e.j > 0 /\ e.op \in {"write", "copy"}}

\* C12: two jobs with different fingerprints never write or copy to the
\* same path, under tmp/ or under output/clips/.
C12_NoSharedPath ==
    \A e1 \in FileEffects, e2 \in FileEffects :
        Fingerprint(jobs[e1.t][e1.j]) # Fingerprint(jobs[e2.t][e2.j])
            => e1.path # e2.path

\* C13: a metadata record or metrics document that exists in the
\* destination tree is never changed by a later step.
C13_WriteOnce ==
    [][\A q \in DOMAIN files :
          (q.dir.root = "output/clips" /\ files[q].kind \in {"meta", "metrics"})
              => (q \in DOMAIN files' /\ files'[q] = files[q])]_vars

InPipeline(t) == kind[t] # "none" /\ pc[t] \in {"fetch", "ffmpeg", "metrics"}

\* C16: at most one job is between its first await and its return at any
\* time.
C16_OneJobAtATime == Cardinality({t \in Tasks : InPipeline(t)}) <= 1

====
